---------------------------- MODULE Spec2Model ----------------------------
(***************************************************************************)
(* A model of the two tutorial notebooks of aitrios-sdk-vision-sensing-app *)
(*                                                                         *)
(*   export_api.ipynb                                   (dataset export)   *)
(*   quantize_image_classification_keras_model_with_mct.ipynb  (quantize)  *)
(*                                                                         *)
(* A notebook is run cell by cell from the top ("Run All"); an exception   *)
(* ends the run.  Calls into third-party libraries and the remote API are  *)
(* modelled by their observable outcome, chosen nondeterministically.      *)
(*                                                                         *)
(* Text is a sequence of characters.  For the natural sort a character is  *)
(* its code point (48..57 are the digits "0".."9", 47 is "/", 97 is "a");  *)
(* for the export paths a character sequence is abbreviated to a sequence  *)
(* of tokens ("/" is the path separator).                                  *)
(***************************************************************************)
EXTENDS Integers, Sequences, FiniteSets, TLC

VARIABLES
    nb,                 \* which program runs: "export", "quantize", "sort", "resize"
    pc,                 \* position of the run
    err,                \* the exception that ended the run, or "none"
    events,             \* the operations performed so far, in order
    symlinks,           \* environment: the paths that are symbolic links
    cfgStep,            \* position inside the "Load Configurations" cell
    ex,                 \* export notebook: the kernel's variables
    fs,                 \* export notebook: the file system (path -> content)
    qz,                 \* quantize notebook: the kernel's variables
    files,              \* quantize notebook: files written (name -> content)
    env,                \* files the run reads: configuration, evaluation data
    outputs,            \* quantize notebook: what each evaluated model answered
    paths,              \* natural sort: the globbed paths
    files_all,          \* natural sort: sorted(paths, key=natural_keys)
    shape,              \* resize: x.shape[0], x.shape[1]
    input_tensor_size,  \* resize: the configured input_tensor_size
    resized             \* resize: what resize(x) computed

vars == <<nb, pc, err, events, symlinks, cfgStep, ex, fs, qz, files, env,
          outputs, paths, files_all, shape, input_tensor_size, resized>>

commonVars == <<nb, pc, err, events, symlinks, cfgStep>>
exportVars == <<ex, fs>>
quantVars == <<qz, files, env, outputs>>
sortVars == <<paths, files_all>>
resizeVars == <<shape, input_tensor_size, resized>>

NoValue == [none |-> TRUE]

-----------------------------------------------------------------------------
(* Bounds of the model.                                                    *)

MaxLen == 3          \* longest path text given to the natural sort
MaxSide == 6         \* largest image height / width given to resize
MaxTensor == 258     \* largest input_tensor_size tried (above 256 on purpose)

-----------------------------------------------------------------------------
(* Generic helpers.                                                        *)

Min(a, b) == IF a <= b THEN a ELSE b

Range(s) == {s[i] : i \in 1..Len(s)}

SeqsUpTo(S, n) == UNION {[1..k -> S] : k \in 0..n}

\* how often x occurs in sequence s
Count(s, x) == Cardinality({i \in 1..Len(s) : s[i] = x})

-----------------------------------------------------------------------------
(* Natural sort (quantize notebook, "Enumerate JPEG images").              *)

Alphabet == {48, 49, 50, 97}        \* "0", "1", "2", "a"

IsDigit(c) == c \in 48..57

\* str.isdigit(): non-empty and digits only
IsDigitText(t) == Len(t) > 0 /\ \A i \in 1..Len(t) : IsDigit(t[i])

\* int(text) of a digit text: left to right, value * 10 + digit
RECURSIVE IntOf(_)
IntOf(t) ==
    IF Len(t) = 0 THEN 0
    ELSE IntOf(SubSeq(t, 1, Len(t) - 1)) * 10 + (t[Len(t)] - 48)

\* atoi without the conversion: every run stays a string
atoi_noconv(text) == [isInt |-> FALSE, n |-> 0, s |-> text]

\* atoi(text): int(text) if text.isdigit() else text
atoi(text) ==
    IF IsDigitText(text)
    THEN [isInt |-> TRUE, n |-> IntOf(text), s |-> <<>>]
    ELSE [isInt |-> FALSE, n |-> 0, s |-> text]

\* re.split(r"(\d+)", text): the text before the first digit run, the run, and
\* the split of what follows it; the whole text when it holds no digit.
RECURSIVE re_split(_)
re_split(text) ==
    LET digitAt == {i \in 1..Len(text) : IsDigit(text[i])} IN
    IF digitAt = {} THEN <<text>>
    ELSE LET p == CHOOSE i \in digitAt : \A j \in digitAt : i <= j
             q == CHOOSE j \in p..Len(text) :
                     /\ \A k \in p..j : IsDigit(text[k])
                     /\ (j = Len(text) \/ ~IsDigit(text[j + 1]))
         IN  <<SubSeq(text, 1, p - 1), SubSeq(text, p, q)>>
                 \o re_split(SubSeq(text, q + 1, Len(text)))

natural_keys(text) ==
    LET parts == re_split(text) IN [i \in 1..Len(parts) |-> atoi(parts[i])]

\* Python's < on two strings: by code point, a proper prefix first
StrLess(a, b) ==
    \/ \E k \in 1..Min(Len(a), Len(b)) :
          /\ \A m \in 1..(k - 1) : a[m] = b[m]
          /\ a[k] < b[k]
    \/ /\ Len(a) < Len(b)
       /\ \A m \in 1..Len(a) : a[m] = b[m]

\* first index at which two key lists differ (0: none within the shorter one)
FirstDiff(ka, kb) ==
    LET d == {k \in 1..Min(Len(ka), Len(kb)) : ka[k] # kb[k]} IN
    IF d = {} THEN 0 ELSE CHOOSE k \in d : \A j \in d : k <= j

\* Python's < on two key lists raises TypeError when the first differing
\* elements are an int and a str
KeyTypeError(ka, kb) ==
    LET k == FirstDiff(ka, kb) IN k # 0 /\ ka[k].isInt # kb[k].isInt

\* Python's < on two key lists
KeyLess(ka, kb) ==
    LET k == FirstDiff(ka, kb) IN
    IF k = 0 THEN Len(ka) < Len(kb)
    ELSE IF ka[k].isInt /\ kb[k].isInt THEN ka[k].n < kb[k].n
    ELSE StrLess(ka[k].s, kb[k].s)

\* the key of every element, computed once as sorted() does
KeysOf(s) == [i \in 1..Len(s) |-> natural_keys(s[i])]

\* insert index x into the sorted index sequence idx, after every index whose
\* key is not greater
RECURSIVE InsertByKey(_, _, _)
InsertByKey(keys, x, idx) ==
    IF Len(idx) = 0 THEN <<x>>
    ELSE IF KeyLess(keys[x], keys[idx[1]]) THEN <<x>> \o idx
    ELSE <<idx[1]>> \o InsertByKey(keys, x, Tail(idx))

RECURSIVE SortedIndices(_, _)
SortedIndices(keys, n) ==
    IF n = 0 THEN <<>>
    ELSE InsertByKey(keys, n, SortedIndices(keys, n - 1))

\* sorted(s, key=natural_keys): a stable sort
sorted_natural(s) ==
    LET idx == SortedIndices(KeysOf(s), Len(s)) IN
    [k \in 1..Len(s) |-> s[idx[k]]]

\* sorted() raises when a comparison raises
SortTypeError(s) ==
    LET keys == KeysOf(s) IN
    \E i, j \in 1..Len(s) : i < j /\ KeyTypeError(keys[i], keys[j])

-----------------------------------------------------------------------------
(* The natural sort as a program: glob, then sorted(..., key=natural_keys). *)

Texts(S, n) == SeqsUpTo(S, n) \ {<<>>}

AllDistinct(s) == \A i, j \in 1..Len(s) : i # j => s[i] # s[j]

\* what glob.glob may return, in any order: two distinct paths, or three
\* shorter ones written with the characters "1" and "2" only
GlobResults ==
    {p \in Texts(Alphabet, MaxLen) \X Texts(Alphabet, MaxLen) : AllDistinct(p)}
        \cup {p \in Texts({49, 50}, MaxLen - 1) \X Texts({49, 50}, MaxLen - 1)
                      \X Texts({49, 50}, MaxLen - 1) : AllDistinct(p)}

Idle ==
    /\ symlinks = {} /\ cfgStep = 0
    /\ ex = NoValue /\ fs = NoValue
    /\ qz = NoValue /\ files = NoValue /\ env = NoValue /\ outputs = NoValue

NoSort == paths = <<>> /\ files_all = <<>>
NoResize == shape = <<0, 0>> /\ input_tensor_size = 0 /\ resized = NoValue

InitSort ==
    /\ nb = "sort" /\ pc = "glob" /\ err = "none" /\ events = <<>>
    /\ Idle /\ NoResize
    /\ paths \in GlobResults
    /\ files_all = <<>>

\* files_all = sorted(glob.glob(...), key=natural_keys)
SortFiles ==
    /\ nb = "sort" /\ pc = "glob"
    /\ IF SortTypeError(paths)
       THEN pc' = "failed" /\ err' = "TypeError" /\ files_all' = files_all
       ELSE pc' = "sorted" /\ err' = err /\ files_all' = sorted_natural(paths)
    /\ UNCHANGED <<nb, events, symlinks, cfgStep, paths>>
    /\ UNCHANGED <<exportVars, quantVars, resizeVars>>

NextSort == SortFiles

SpecSort == InitSort /\ [][NextSort]_vars


-----------------------------------------------------------------------------
(* Calibration preprocessing (quantize notebook, "Quantize Keras Model").  *)
(* Python floats are modelled as exact fractions <<numerator, denominator>>*)
(* with a positive denominator.                                            *)

ResizeBase == 256      \* RESIZE_SCALE = 256 / input_tensor_size

RatMul(a, k) == <<a[1] * k, a[2]>>
RatDiv(a, k) == <<a[1], a[2] * k>>
RatLess(a, b) == a[1] * b[2] < b[1] * a[2]
RatMin(a, b) == IF RatLess(b, a) THEN b ELSE a
RatMax(a, b) == IF RatLess(a, b) THEN b ELSE a

\* int(np.round(x)): to the nearest integer, a half to the even neighbour
RoundHalfEven(x) ==
    LET fl == x[1] \div x[2]
        twice == 2 * (x[1] % x[2])
    IN  IF twice < x[2] THEN fl
        ELSE IF twice > x[2] THEN fl + 1
        ELSE IF fl % 2 = 0 THEN fl ELSE fl + 1

\* int(d / 2): float division, then truncation toward zero
IntHalf(d) == IF d >= 0 THEN d \div 2 ELSE -((-d) \div 2)

\* len(range(n)[start:stop]): Python's slice of an axis of length n
PySliceLen(start, stop, n) ==
    LET clamp(i) == IF i < 0 THEN (IF i + n < 0 THEN 0 ELSE i + n)
                    ELSE IF i > n THEN n ELSE i
        lo == clamp(start)
        hi == clamp(stop)
    IN  IF hi > lo THEN hi - lo ELSE 0

RESIZE_SCALE(its) == <<ResizeBase, its>>

resize_side_min(its, sh) ==
    RatMin(RatDiv(RatMul(RESIZE_SCALE(its), its), sh[1]),
           RatDiv(RatMul(RESIZE_SCALE(its), its), sh[2]))

\* resize_side = max(RESIZE_SCALE * SIZE / x.shape[0], RESIZE_SCALE * SIZE / x.shape[1])
resize_side(its, sh) ==
    RatMax(RatDiv(RatMul(RESIZE_SCALE(its), its), sh[1]),
           RatDiv(RatMul(RESIZE_SCALE(its), its), sh[2]))

\* resize(x) for an image of shape sh, with SIZE = input_tensor_size = its
resize(its, sh) ==
    LET height_tag == RoundHalfEven(RatMul(resize_side(its, sh), sh[1]))
        width_tag == RoundHalfEven(RatMul(resize_side(its, sh), sh[2]))
        offset_height == IntHalf(height_tag - its)
        offset_width == IntHalf(width_tag - its)
    IN  [height_tag |-> height_tag, width_tag |-> width_tag,
         offset_height |-> offset_height, offset_width |-> offset_width,
         cropped_shape |->
            <<PySliceLen(offset_height, offset_height + its, height_tag),
              PySliceLen(offset_width, offset_width + its, width_tag)>>]

InitResize ==
    /\ nb = "resize" /\ pc = "loaded" /\ err = "none" /\ events = <<>>
    /\ Idle /\ NoSort
    /\ shape \in (1..MaxSide) \X (1..MaxSide)
    /\ input_tensor_size \in 1..MaxTensor
    /\ resized = NoValue

\* the image loader applies resize to one image
Resize ==
    /\ nb = "resize" /\ pc = "loaded"
    /\ pc' = "resized"
    /\ resized' = resize(input_tensor_size, shape)
    /\ UNCHANGED <<nb, err, events, symlinks, cfgStep, shape, input_tensor_size>>
    /\ UNCHANGED <<exportVars, quantVars, sortVars>>

NextResize == Resize

SpecResize == InitResize /\ [][NextResize]_vars

-----------------------------------------------------------------------------
(* What both notebooks share: the record of operations, the symlink guard  *)
(* and the "Load Configurations" cell.                                     *)

\* one performed operation: op on the path configured as arg ("" when it is
\* not a guarded path), with a detail and a number
Ev(op, arg, what, n) == [op |-> op, arg |-> arg, what |-> what, n |-> n]

\* validate_symlink that never raises
validate_symlink_off(path, links) == "none"

\* validate_symlink(path): raises OSError(errno.ELOOP, ...) if path.is_symlink()
validate_symlink(path, links) ==
    IF path \in links THEN "OSError(ELOOP)" ELSE "none"

Step(op, arg) == [op |-> op, arg |-> arg]

\* export_api.ipynb, the statements of the "Load Configurations" cell
ExportConfigCell ==
    << Step("validate_symlink", "configuration.json"),
       Step("open", "configuration.json"),
       Step("validate_symlink", "configuration_schema_export.json"),
       Step("open", "configuration_schema_export.json"),
       Step("jsonschema", ""),
       Step("read", "cvat_username"),
       Step("read", "cvat_password"),
       Step("read", "cvat_project_id"),
       Step("read", "export_format"),
       Step("read", "export_dir"),
       Step("validate_symlink", "export_dir") >>

\* the quantize notebook, the statements of the "Load Configurations" cell
QuantizeConfigCell ==
    << Step("validate_symlink", "configuration.json"),
       Step("open", "configuration.json"),
       Step("validate_symlink", "configuration_schema.json"),
       Step("open", "configuration_schema.json"),
       Step("jsonschema", ""),
       Step("read", "source_keras_model"),
       Step("validate_symlink", "source_keras_model"),
       Step("read", "dataset_image_dir"),
       Step("validate_symlink", "dataset_image_dir"),
       Step("read", "batch_size"),
       Step("read", "input_tensor_size"),
       Step("read", "iteration_count"),
       Step("read", "output_dir"),
       Step("validate_symlink", "output_dir"),
       Step("read", "evaluate_image_dir"),
       Step("validate_symlink", "evaluate_image_dir"),
       Step("read", "evaluate_image_extension"),
       Step("read", "evaluate_label_file"),
       Step("validate_symlink", "evaluate_label_file"),
       Step("read", "evaluate_result_dir"),
       Step("validate_symlink", "evaluate_result_dir") >>

ConfigCell == IF nb = "export" THEN ExportConfigCell ELSE QuantizeConfigCell

\* the cell that follows "Load Configurations"
AfterConfig == IF nb = "export" THEN "auth" ELSE "load_model"

InConfig(op) ==
    /\ nb \in {"export", "quantize"}
    /\ pc = "config"
    /\ cfgStep \in 1..Len(ConfigCell)
    /\ ConfigCell[cfgStep].op = op

\* the statement ended normally: on to the next one, or to the next cell
StepDone ==
    /\ err' = err
    /\ IF cfgStep = Len(ConfigCell)
       THEN pc' = AfterConfig /\ cfgStep' = cfgStep
       ELSE pc' = pc /\ cfgStep' = cfgStep + 1

\* the statement raised: the run ends
Raise(e) == pc' = "failed" /\ err' = e

\* validate_symlink(<path>)
ValidateSymlinkStep ==
    /\ InConfig("validate_symlink")
    /\ LET path == ConfigCell[cfgStep].arg
           e == validate_symlink(path, symlinks)
       IN  /\ events' = Append(events, Ev("validate_symlink", path, e, 0))
           /\ IF e = "none" THEN StepDone ELSE Raise(e) /\ cfgStep' = cfgStep
    /\ UNCHANGED <<nb, symlinks>>
    /\ UNCHANGED <<exportVars, quantVars, sortVars, resizeVars>>

\* with open(<path>, "r") as f: ... = json.load(f)
OpenJsonStep ==
    /\ InConfig("open")
    /\ LET path == ConfigCell[cfgStep].arg IN
       /\ events' = Append(events, Ev("open", path, "", 0))
       /\ \/ StepDone
          \/ Raise("FileNotFoundError") /\ cfgStep' = cfgStep
          \/ Raise("JSONDecodeError") /\ cfgStep' = cfgStep
    /\ UNCHANGED <<nb, symlinks>>
    /\ UNCHANGED <<exportVars, quantVars, sortVars, resizeVars>>

\* jsonschema.validate(app_configuration, json_schema)
JsonSchemaValidate ==
    /\ InConfig("jsonschema")
    /\ \/ /\ events' = Append(events, Ev("jsonschema", "", "valid", 0))
          /\ StepDone
       \/ /\ events' = Append(events, Ev("jsonschema", "", "invalid", 0))
          /\ Raise("ValidationError") /\ cfgStep' = cfgStep
    /\ UNCHANGED <<nb, symlinks>>
    /\ UNCHANGED <<exportVars, quantVars, sortVars, resizeVars>>

\* str.replace(old, new) on a text whose characters are tokens
Replace(t, old, new) == [i \in 1..Len(t) |-> IF t[i] = old THEN new ELSE t[i]]

os_path_sep == "/"

\* <name> = app_configuration[<key>] (with .replace(os.path.sep, "/") for a path)
ReadConfigValue ==
    /\ InConfig("read")
    /\ LET key == ConfigCell[cfgStep].arg IN
       /\ events' = Append(events, Ev("read", "", key, 0))
       /\ IF nb = "export" /\ key = "cvat_project_id"
          THEN ex' = [ex EXCEPT !.cvat_project_id = env.configuration.cvat_project_id]
          ELSE IF nb = "export" /\ key = "export_dir"
          THEN ex' = [ex EXCEPT !.export_dir =
                         Replace(env.configuration.export_dir, os_path_sep, "/")]
          ELSE ex' = ex
    /\ StepDone
    /\ UNCHANGED <<nb, symlinks, fs>>
    /\ UNCHANGED <<quantVars, sortVars, resizeVars>>

-----------------------------------------------------------------------------
(* export_api.ipynb: "Set Authentication" and "Download Dataset".          *)

MaxPolls == 3        \* retrieve_dataset calls until the server has the file
MaxProjectId == 2    \* cvat_project_id is drawn from 1..MaxProjectId

\* text t split at the separator sep, empty parts dropped
RECURSIVE SplitAt(_, _)
SplitAt(t, sep) ==
    LET at == {i \in 1..Len(t) : t[i] = sep} IN
    IF at = {} THEN (IF Len(t) = 0 THEN <<>> ELSE <<t>>)
    ELSE LET p == CHOOSE i \in at : \A j \in at : i <= j IN
         (IF p = 1 THEN <<>> ELSE <<SubSeq(t, 1, p - 1)>>)
             \o SplitAt(SubSeq(t, p + 1, Len(t)), sep)

\* the path of text t: its components
Components(t) == SplitAt(t, "/")

os_path_exists(f, t) == Components(t) \in DOMAIN f

os_path_isdir(f, t) == os_path_exists(f, t) /\ f[Components(t)] = "dir"

\* os.makedirs(t): the directory and its missing parents
os_makedirs(f, t) ==
    LET c == Components(t) IN
    [q \in DOMAIN f \cup {SubSeq(c, 1, k) : k \in 1..Len(c)} |->
        IF q \in DOMAIN f THEN f[q] ELSE "dir"]

os_path_basename(t) == LET c == Components(t) IN c[Len(c)]

\* os.rename(src, dst) of a file
os_rename(f, src, dst) ==
    [q \in (DOMAIN f \ {src}) \cup {dst} |-> IF q = dst THEN f[src] ELSE f[q]]

\* shutil.move(src, dst) of a file: into dst when dst is a directory (Error
\* when a file of that name is there), else onto dst
shutil_move(f, src, dst) ==
    IF os_path_isdir(f, dst)
    THEN LET real_dst == Append(Components(dst), os_path_basename(src)) IN
         IF real_dst \in DOMAIN f
         THEN [fs |-> f, err |-> "shutil.Error"]
         ELSE [fs |-> os_rename(f, Components(src), real_dst), err |-> "none"]
    ELSE [fs |-> os_rename(f, Components(src), Components(dst)), err |-> "none"]

\* filename = "project_id_" + str(cvat_project_id) + ".zip"
DatasetFilename(id) == <<"project_id_", ToString(id), ".zip">>

ExportDirs == {<<"dataset">>, <<"dataset", "/">>, <<"out", "/", "dataset", "/">>}

\* what configuration.json may hold
ExportConfigurations ==
    [cvat_project_id : 1..MaxProjectId, export_dir : ExportDirs]

\* the file systems the notebook may start on: export_dir may exist, an
\* earlier download may be in it, and a file named export_dir + filename
\* may exist
InitialFileSystems(c) ==
    LET dir == Components(c.export_dir)
        inside == Append(dir, DatasetFilename(c.cvat_project_id))
        glued == Components(c.export_dir \o DatasetFilename(c.cvat_project_id))
        noDir == [q \in {} |-> "dir"]
        hasDir == os_makedirs(noDir, c.export_dir)
        with(f, q) == [r \in DOMAIN f \cup {q} |-> IF r = q THEN "old" ELSE f[r]]
    IN  {noDir, hasDir, with(hasDir, inside)}
            \cup (IF glued = inside THEN {}
                  ELSE {with(noDir, glued), with(hasDir, glued),
                        with(with(hasDir, inside), glued)})

\* the responses of projects_api.retrieve_dataset: 202 while the server is
\* preparing the dataset, 201 when it is ready, 200 with the file
Statuses == {200, 201, 202}

\* data.name: the temporary file the client saved the response body to
TempFilepaths(filename) ==
    {<<"tmp", "/">> \o filename, <<"tmp", "/", "tmpfile">>}

wt_len == 4          \* len(wt_list)

InitExport ==
    /\ nb = "export" /\ pc = "config" /\ err = "none" /\ events = <<>>
    /\ cfgStep = 1
    /\ symlinks \in SUBSET {"configuration.json",
                            "configuration_schema_export.json", "export_dir"}
    /\ env \in {[configuration |-> c] : c \in ExportConfigurations}
    /\ fs \in InitialFileSystems(env.configuration)
    /\ ex = [cvat_project_id |-> 0, export_dir |-> <<>>, filename |-> <<>>,
             status |-> 0, data |-> <<>>, temp_filepath |-> <<>>, wt_count |-> 0]
    /\ qz = NoValue /\ files = NoValue /\ outputs = NoValue
    /\ NoSort /\ NoResize

\* configuration = Configuration(host=..., username=..., password=...)
SetAuthentication ==
    /\ nb = "export" /\ pc = "auth"
    /\ pc' = "list"
    /\ UNCHANGED <<nb, err, events, symlinks, cfgStep>>
    /\ UNCHANGED <<exportVars, quantVars, sortVars, resizeVars>>

\* with ApiClient(configuration) ...: status = 0 ... projects_api.list() ...
\* filename = ... wt_count = 0
ListProjects ==
    /\ nb = "export" /\ pc = "list"
    /\ events' = Append(events, Ev("request", "", "list", 0))
    /\ \/ /\ pc' = "loop" /\ err' = err
          /\ ex' = [ex EXCEPT !.status = 0, !.temp_filepath = <<>>,
                              !.filename = DatasetFilename(ex.cvat_project_id),
                              !.wt_count = 0]
       \/ Raise("ApiException") /\ ex' = ex
    /\ UNCHANGED <<nb, symlinks, cfgStep, fs>>
    /\ UNCHANGED <<quantVars, sortVars, resizeVars>>

\* a loop condition that gives up after the first response
LoopCondFirstResponse(status) == status = 0

\* while status != 200 and status != 201
LoopCond(status) == status # 200 /\ status # 201

Polls == Cardinality({i \in 1..Len(events) : events[i].what = "retrieve_dataset"})

\* (data, response) = api_client.projects_api.retrieve_dataset(...);
\* status = response.status; print(...)
RetrieveDataset ==
    /\ nb = "export" /\ pc = "loop"
    /\ LoopCond(ex.status)
    /\ \/ \E s \in Statuses, name \in TempFilepaths(ex.filename) :
             /\ Polls + 1 < MaxPolls \/ s # 202
             /\ events' = Append(events, Ev("request", "", "retrieve_dataset", s))
             /\ ex' = [ex EXCEPT !.status = s, !.data = name]
             /\ fs' = [q \in DOMAIN fs \cup {Components(name)} |->
                          IF q = Components(name) THEN "download" ELSE fs[q]]
             /\ pc' = "sleep" /\ err' = err
       \/ /\ events' = Append(events, Ev("request", "", "retrieve_dataset", 0))
          /\ Raise("ApiException")
          /\ UNCHANGED <<ex, fs>>
    /\ UNCHANGED <<nb, symlinks, cfgStep>>
    /\ UNCHANGED <<quantVars, sortVars, resizeVars>>

\* a sleep that grows with the attempts
SleepSecondsBackoff(wt_count) == wt_count + 1

\* time.sleep(1)
SleepSeconds(wt_count) == 1

\* time.sleep(1); temp_filepath = data.name; wt_count += 1;
\* if wt_count == wt_len: wt_count = 0
Sleep ==
    /\ nb = "export" /\ pc = "sleep"
    /\ events' = Append(events, Ev("sleep", "", "", SleepSeconds(ex.wt_count)))
    /\ ex' = [ex EXCEPT !.temp_filepath = ex.data,
                        !.wt_count = IF ex.wt_count + 1 = wt_len THEN 0
                                     ELSE ex.wt_count + 1]
    /\ pc' = "loop"
    /\ UNCHANGED <<nb, err, symlinks, cfgStep, fs>>
    /\ UNCHANGED <<quantVars, sortVars, resizeVars>>

\* the loop ends; if not os.path.exists(export_dir): os.makedirs(export_dir)
PrepareExportDir ==
    /\ nb = "export" /\ pc = "loop"
    /\ ~LoopCond(ex.status)
    /\ IF ~os_path_exists(fs, ex.export_dir)
       THEN /\ fs' = os_makedirs(fs, ex.export_dir)
            /\ events' = Append(events, Ev("makedirs", "export_dir", "", 0))
       ELSE UNCHANGED <<fs, events>>
    /\ pc' = "move"
    /\ UNCHANGED <<nb, err, symlinks, cfgStep, ex>>
    /\ UNCHANGED <<quantVars, sortVars, resizeVars>>

\* if not os.path.exists(export_dir + filename): shutil.move(temp_filepath,
\* export_dir) else: raise FileExistsError(...)
MoveDataset ==
    /\ nb = "export" /\ pc = "move"
    /\ IF ~os_path_exists(fs, ex.export_dir \o ex.filename)
       THEN LET r == shutil_move(fs, ex.temp_filepath, ex.export_dir) IN
            /\ events' = Append(events, Ev("move", "export_dir", r.err, 0))
            /\ fs' = r.fs
            /\ IF r.err = "none" THEN pc' = "done" /\ err' = err ELSE Raise(r.err)
       ELSE /\ Raise("FileExistsError")
            /\ UNCHANGED <<fs, events>>
    /\ UNCHANGED <<nb, symlinks, cfgStep, ex>>
    /\ UNCHANGED <<quantVars, sortVars, resizeVars>>

NextExport ==
    \/ ValidateSymlinkStep
    \/ OpenJsonStep
    \/ JsonSchemaValidate
    \/ ReadConfigValue
    \/ SetAuthentication
    \/ ListProjects
    \/ RetrieveDataset
    \/ Sleep
    \/ PrepareExportDir
    \/ MoveDataset

SpecExport == InitExport /\ [][NextExport]_vars

-----------------------------------------------------------------------------
(* The quantize notebook after "Load Configurations".                      *)

MaxImages == 2       \* most images in the evaluation data set

\* a different order: the interpreters loaded before the conversion cells
QuantizeCellsLoadFirst ==
    << "load_model", "loader", "quantize", "load_interp", "load_interp_q",
       "convert_quantized", "convert", "load_labels", "enumerate",
       "eval_tflite", "eval_tflite_q", "eval_keras", "eval_keras_q", "print",
       "save", "done" >>

\* the cells in the order the notebook runs them
QuantizeCells ==
    << "load_model", "loader", "quantize", "convert_quantized", "convert",
       "load_labels", "enumerate", "load_interp", "load_interp_q",
       "eval_tflite", "eval_tflite_q", "eval_keras", "eval_keras_q", "print",
       "save", "done" >>

\* the cell after cell c
NextCell(c) ==
    LET i == CHOOSE k \in 1..Len(QuantizeCells) : QuantizeCells[k] = c IN
    QuantizeCells[i + 1]

AtCell(c) == nb = "quantize" /\ pc = c

\* the cell ended normally
CellDone == pc' = NextCell(pc) /\ err' = err

\* what the libraries make of a model
KerasModel == "keras"
MctQuantized(m) == "mct:" \o m
TfliteOf(m) == "tflite:" \o m

FolderNames == {<<50>>, <<49, 48>>}      \* label folders "2" and "10"
ImageNames == {<<50>>, <<49, 48>>}       \* image files "2" and "10"
LabelIds == {0, 1}

\* the path glob returns for an image: <folder>/<file>
ImagePath(img) == img[1] \o <<47>> \o img[2]

\* the evaluation data sets: images inside label folders, label folders
\* (some may be empty), and whether files of the extension lie elsewhere
\* under evaluate_image_dir (beside or below the label folders)
DataSets ==
    {d \in [images : SUBSET (FolderNames \X ImageNames),
            folders : SUBSET FolderNames,
            elsewhere : BOOLEAN] :
        /\ Cardinality(d.images) <= MaxImages
        /\ \A img \in d.images : img[1] \in d.folders}

\* the label files: label name -> label id, one of them without label "10"
LabelFiles ==
    [FolderNames -> LabelIds] \cup {[f \in {<<50>>} |-> 0]}

NoAccuracy == <<0, 0>>

InitQuantize ==
    /\ nb = "quantize" /\ pc = "config" /\ err = "none" /\ events = <<>>
    /\ cfgStep = 1
    /\ symlinks \in SUBSET {QuantizeConfigCell[i].arg : i \in
                              {k \in 1..Len(QuantizeConfigCell) :
                                  QuantizeConfigCell[k].op = "validate_symlink"}}
    /\ env = [images |-> {}, folders |-> {}, elsewhere |-> FALSE]
    /\ qz = [keras_model |-> "", quantized_keras_model |-> "",
             labels |-> <<>>, test_images |-> <<>>, ground_truth_ids |-> <<>>,
             interpreter |-> [model_path |-> "", model |-> ""],
             interpreter_quantized |-> [model_path |-> "", model |-> ""],
             top_1_accuracy_tflite |-> NoAccuracy,
             top_1_accuracy_tflite_quantized |-> NoAccuracy,
             top_1_accuracy_keras |-> NoAccuracy,
             top_1_accuracy_keras_quantized |-> NoAccuracy]
    /\ files \in {[tflite |-> t, results |-> <<>>] :
                     t \in {<<>>, [f \in {"model.tflite", "model_quantized.tflite"}
                                      |-> "stale"]}}
    /\ outputs = <<>>
    /\ ex = NoValue /\ fs = NoValue
    /\ NoSort /\ NoResize

\* keras_model = load_model(source_keras_model)
LoadKerasModel ==
    /\ AtCell("load_model")
    /\ \/ /\ events' = Append(events, Ev("load_model", "source_keras_model", "", 0))
          /\ qz' = [qz EXCEPT !.keras_model = KerasModel]
          /\ CellDone
       \/ /\ events' = Append(events, Ev("load_model", "source_keras_model", "raised", 0))
          /\ Raise("OSError") /\ qz' = qz
    /\ UNCHANGED <<nb, symlinks, cfgStep, files, env, outputs>>
    /\ UNCHANGED <<exportVars, sortVars, resizeVars>>

\* image_data_loader = FolderImageLoader(dataset_image_dir, ...)
CreateImageLoader ==
    /\ AtCell("loader")
    /\ \/ /\ events' = Append(events, Ev("image_loader", "dataset_image_dir", "", 0))
          /\ CellDone
       \/ /\ events' = Append(events, Ev("image_loader", "dataset_image_dir", "raised", 0))
          /\ Raise("Exception")
    /\ UNCHANGED <<nb, symlinks, cfgStep>>
    /\ UNCHANGED <<quantVars, exportVars, sortVars, resizeVars>>

\* quantized_keras_model, quantization_info =
\*     mct.keras_post_training_quantization(keras_model, ...)
QuantizeKerasModel ==
    /\ AtCell("quantize")
    /\ \/ /\ events' = Append(events, Ev("quantize", "", qz.keras_model, 0))
          /\ qz' = [qz EXCEPT !.quantized_keras_model = MctQuantized(qz.keras_model)]
          /\ CellDone
       \/ /\ events' = Append(events, Ev("quantize", "", "raised", 0))
          /\ Raise("Exception") /\ qz' = qz
    /\ UNCHANGED <<nb, symlinks, cfgStep, files, env, outputs>>
    /\ UNCHANGED <<exportVars, sortVars, resizeVars>>

\* <dir>.mkdir(...); (<dir> / name).write_bytes(bytes)
WriteBytes(name, bytes) ==
    files' = [files EXCEPT !.tflite =
                 [f \in DOMAIN files.tflite \cup {name} |->
                     IF f = name THEN bytes ELSE files.tflite[f]]]

\* the conversion cell of the quantized model writing the other file
QuantizedTfliteFileSwapped == "model.tflite"

\* tflite_model_file_quantized = tflite_models_dir / "model_quantized.tflite"
QuantizedTfliteFile == "model_quantized.tflite"

\* tflite_model_file = tflite_models_dir / "model.tflite"
TfliteFile == "model.tflite"

\* converter_quantized = TFLiteConverter.from_keras_model(quantized_keras_model)
\* ... tflite_model_file_quantized.write_bytes(tflite_model_quantized)
ConvertQuantizedModel ==
    /\ AtCell("convert_quantized")
    /\ \/ /\ events' = events
                \o << Ev("convert", "", qz.quantized_keras_model, 0),
                      Ev("write", "output_dir", QuantizedTfliteFile, 0) >>
          /\ WriteBytes(QuantizedTfliteFile, TfliteOf(qz.quantized_keras_model))
          /\ CellDone
       \/ /\ events' = Append(events, Ev("convert", "", "raised", 0))
          /\ Raise("ConverterError") /\ files' = files
    /\ UNCHANGED <<nb, symlinks, cfgStep, qz, env, outputs>>
    /\ UNCHANGED <<exportVars, sortVars, resizeVars>>

\* converter = TFLiteConverter.from_keras_model(keras_model) ...
\* tflite_model_file.write_bytes(tflite_model)
ConvertModel ==
    /\ AtCell("convert")
    /\ \/ /\ events' = events
                \o << Ev("convert", "", qz.keras_model, 0),
                      Ev("write", "output_dir", TfliteFile, 0) >>
          /\ WriteBytes(TfliteFile, TfliteOf(qz.keras_model))
          /\ CellDone
       \/ /\ events' = Append(events, Ev("convert", "", "raised", 0))
          /\ Raise("ConverterError") /\ files' = files
    /\ UNCHANGED <<nb, symlinks, cfgStep, qz, env, outputs>>
    /\ UNCHANGED <<exportVars, sortVars, resizeVars>>

\* with open(evaluate_label_file) as f: labels = json.load(f)
LoadLabels ==
    /\ AtCell("load_labels")
    /\ \/ \E l \in LabelFiles :
             /\ events' = Append(events, Ev("open", "evaluate_label_file", "", 0))
             /\ qz' = [qz EXCEPT !.labels = l]
             /\ CellDone
       \/ /\ events' = Append(events, Ev("open", "evaluate_label_file", "raised", 0))
          /\ Raise("FileNotFoundError") /\ qz' = qz
    /\ UNCHANGED <<nb, symlinks, cfgStep, files, env, outputs>>
    /\ UNCHANGED <<exportVars, sortVars, resizeVars>>

\* the orders in which glob may return the elements of S
Orders(S) ==
    {o \in [1..Cardinality(S) -> S] : \A i, j \in DOMAIN o : i # j => o[i] # o[j]}

\* the concatenation of a sequence of sequences
RECURSIVE Concat(_)
Concat(ss) == IF Len(ss) = 0 THEN <<>> ELSE ss[1] \o Concat(Tail(ss))

\* os.path.basename(os.path.dirname(file))
LabelOfPath(file) ==
    LET parts == SplitAt(file, 47) IN parts[Len(parts) - 1]

\* os.path.basename(file)
BasenameOfPath(file) ==
    LET parts == SplitAt(file, 47) IN parts[Len(parts)]

\* for folder in folders: files_in_folder = sorted(glob(folder/*.ext), ...):
\* the image files in the order the two loops visit them; folderGlob and
\* imageGlob are the orders glob returned the folders and the images in
VisitedFiles(folderGlob, imageGlob) ==
    LET folders == sorted_natural([i \in 1..Len(folderGlob) |->
                                      folderGlob[i] \o <<47>>])
        filesIn(folder) ==
            sorted_natural(SelectSeq([i \in 1..Len(imageGlob) |->
                                         ImagePath(imageGlob[i])],
                                     LAMBDA f : LabelOfPath(f) \o <<47>> = folder))
    IN  Concat([i \in 1..Len(folders) |-> filesIn(folders[i])])

\* files_all = sorted(glob(.../**/*.ext)) ... folders = sorted(glob(.../*/))
\* ... test_images.append(info); ground_truth_ids.append(label_id)
EnumerateImages ==
    /\ AtCell("enumerate")
    /\ \E d \in DataSets :
       \E folderGlob \in Orders(d.folders), imageGlob \in Orders(d.images) :
          LET visited == VisitedFiles(folderGlob, imageGlob)
              known(i) == LabelOfPath(visited[i]) \in DOMAIN qz.labels
          IN  /\ env' = d
              /\ events' = Append(events, Ev("glob", "evaluate_image_dir", "", 0))
              /\ IF d.images = {} /\ ~d.elsewhere
                 THEN Raise("FileNotFoundError") /\ qz' = qz
                 ELSE IF d.folders = {}
                 THEN Raise("FileNotFoundError") /\ qz' = qz
                 ELSE IF \E i \in 1..Len(visited) : ~known(i)
                 THEN Raise("KeyError") /\ qz' = qz
                 ELSE /\ qz' = [qz EXCEPT
                           !.test_images =
                               [i \in 1..Len(visited) |->
                                   [path |-> visited[i],
                                    imageID |-> BasenameOfPath(visited[i])]],
                           !.ground_truth_ids =
                               [i \in 1..Len(visited) |->
                                   qz.labels[LabelOfPath(visited[i])]]]
                      /\ CellDone
    /\ UNCHANGED <<nb, symlinks, cfgStep, files, outputs>>
    /\ UNCHANGED <<exportVars, sortVars, resizeVars>>

\* interpreter = tf.lite.Interpreter(model_path=...): the file's content
LoadedInterpreter(name) ==
    IF name \in DOMAIN files.tflite
    THEN [err |-> "none",
          value |-> [model_path |-> name, model |-> files.tflite[name]]]
    ELSE [err |-> "ValueError", value |-> [model_path |-> "", model |-> ""]]

\* tflite_model_file = tflite_models_dir / "model.tflite";
\* interpreter = tf.lite.Interpreter(model_path=str(tflite_model_file))
LoadInterpreter ==
    /\ AtCell("load_interp")
    /\ LET r == LoadedInterpreter(TfliteFile) IN
       /\ events' = Append(events, Ev("load_interpreter", "output_dir", TfliteFile, 0))
       /\ IF r.err = "none"
          THEN qz' = [qz EXCEPT !.interpreter = r.value] /\ CellDone
          ELSE Raise(r.err) /\ qz' = qz
    /\ UNCHANGED <<nb, symlinks, cfgStep, files, env, outputs>>
    /\ UNCHANGED <<exportVars, sortVars, resizeVars>>

\* tflite_model_file_quantized = tflite_models_dir / "model_quantized.tflite";
\* interpreter_quantized = tf.lite.Interpreter(model_path=...)
LoadInterpreterQuantized ==
    /\ AtCell("load_interp_q")
    /\ LET r == LoadedInterpreter(QuantizedTfliteFile) IN
       /\ events' = Append(events, Ev("load_interpreter", "output_dir",
                                      QuantizedTfliteFile, 0))
       /\ IF r.err = "none"
          THEN qz' = [qz EXCEPT !.interpreter_quantized = r.value] /\ CellDone
          ELSE Raise(r.err) /\ qz' = qz
    /\ UNCHANGED <<nb, symlinks, cfgStep, files, env, outputs>>
    /\ UNCHANGED <<exportVars, sortVars, resizeVars>>

\* accurate_count: the indices below or at n whose prediction is the ground truth
RECURSIVE AccurateCount(_, _, _)
AccurateCount(predictions, ground_truth, n) ==
    IF n = 0 THEN 0
    ELSE AccurateCount(predictions, ground_truth, n - 1)
            + (IF predictions[n].predictions = ground_truth[n] THEN 1 ELSE 0)

\* evaluate_tflite_model comparing prediction i with the ground truth of
\* image i counted from the end
evaluate_tflite_model_reversed(answer, images, ground_truth) ==
    LET predictions == [i \in 1..Len(images) |->
                           [imageID |-> images[i].imageID,
                            predictions |-> answer[images[i].path]]]
        reversed == [i \in 1..Len(ground_truth) |->
                        ground_truth[Len(ground_truth) + 1 - i]]
    IN  IF Len(predictions) = 0
        THEN [err |-> "ZeroDivisionError", value |-> NoAccuracy]
        ELSE [err |-> "none",
              value |-> <<AccurateCount(predictions, reversed, Len(predictions)),
                          Len(predictions)>>]

\* evaluate_tflite_model(interpreter, images), where answer[path] is the
\* arg-max of the interpreter's output for the image at path and ground_truth
\* is the global ground_truth_ids; the accuracy is the fraction
\* <<accurate_count, len(predictions)>>
evaluate_tflite_model(answer, images, ground_truth) ==
    LET predictions == [i \in 1..Len(images) |->
                           [imageID |-> images[i].imageID,
                            predictions |-> answer[images[i].path]]]
    IN  IF Len(predictions) = 0
        THEN [err |-> "ZeroDivisionError", value |-> NoAccuracy]
        ELSE [err |-> "none",
              value |-> <<AccurateCount(predictions, ground_truth, Len(predictions)),
                          Len(predictions)>>]

\* what the interpreter may answer for the images
Answers(images) == [{images[i].path : i \in 1..Len(images)} -> LabelIds]

Evaluated(kind, model, answer, accuracy) ==
    [kind |-> kind, model |-> model, answer |-> answer, accuracy |-> accuracy]

\* top_1_accuracy_tflite = evaluate_tflite_model(interpreter, test_images)
EvaluateTflite ==
    /\ AtCell("eval_tflite")
    /\ \E answer \in Answers(qz.test_images) :
          LET r == evaluate_tflite_model(answer, qz.test_images, qz.ground_truth_ids)
          IN  IF r.err = "none"
              THEN /\ events' = Append(events, Ev("evaluate", "", "tflite", 0))
                   /\ qz' = [qz EXCEPT !.top_1_accuracy_tflite = r.value]
                   /\ outputs' = Append(outputs,
                          Evaluated("tflite", qz.interpreter.model, answer, r.value))
                   /\ CellDone
              ELSE /\ events' = Append(events, Ev("evaluate", "", "raised", 0))
                   /\ Raise(r.err)
                   /\ UNCHANGED <<qz, outputs>>
    /\ UNCHANGED <<nb, symlinks, cfgStep, files, env>>
    /\ UNCHANGED <<exportVars, sortVars, resizeVars>>

\* top_1_accuracy_tflite_quantized =
\*     evaluate_tflite_model(interpreter_quantized, test_images)
EvaluateTfliteQuantized ==
    /\ AtCell("eval_tflite_q")
    /\ \E answer \in Answers(qz.test_images) :
          LET r == evaluate_tflite_model(answer, qz.test_images, qz.ground_truth_ids)
          IN  IF r.err = "none"
              THEN /\ events' = Append(events, Ev("evaluate", "", "tflite_quantized", 0))
                   /\ qz' = [qz EXCEPT !.top_1_accuracy_tflite_quantized = r.value]
                   /\ outputs' = Append(outputs,
                          Evaluated("tflite", qz.interpreter_quantized.model,
                                    answer, r.value))
                   /\ CellDone
              ELSE /\ events' = Append(events, Ev("evaluate", "", "raised", 0))
                   /\ Raise(r.err)
                   /\ UNCHANGED <<qz, outputs>>
    /\ UNCHANGED <<nb, symlinks, cfgStep, files, env>>
    /\ UNCHANGED <<exportVars, sortVars, resizeVars>>

\* what model.evaluate may report as accuracy over n images
KerasAccuracies(n) == {<<k, n>> : k \in 0..n}

\* top_1_accuracy_keras = evaluate_keras_model(keras_model, test_images,
\*                                             ground_truth_ids)
EvaluateKeras ==
    /\ AtCell("eval_keras")
    /\ \/ \E acc \in KerasAccuracies(Len(qz.test_images)) :
             /\ events' = Append(events, Ev("evaluate", "", "keras", 0))
             /\ qz' = [qz EXCEPT !.top_1_accuracy_keras = acc]
             /\ outputs' = Append(outputs, Evaluated("keras", qz.keras_model, <<>>, acc))
             /\ CellDone
       \/ /\ events' = Append(events, Ev("evaluate", "", "raised", 0))
          /\ Raise("Exception")
          /\ UNCHANGED <<qz, outputs>>
    /\ UNCHANGED <<nb, symlinks, cfgStep, files, env>>
    /\ UNCHANGED <<exportVars, sortVars, resizeVars>>

\* top_1_accuracy_keras_quantized = evaluate_keras_model(quantized_keras_model,
\*                                                       test_images, ...)
EvaluateKerasQuantized ==
    /\ AtCell("eval_keras_q")
    /\ \/ \E acc \in KerasAccuracies(Len(qz.test_images)) :
             /\ events' = Append(events, Ev("evaluate", "", "keras_quantized", 0))
             /\ qz' = [qz EXCEPT !.top_1_accuracy_keras_quantized = acc]
             /\ outputs' = Append(outputs,
                    Evaluated("keras", qz.quantized_keras_model, <<>>, acc))
             /\ CellDone
       \/ /\ events' = Append(events, Ev("evaluate", "", "raised", 0))
          /\ Raise("Exception")
          /\ UNCHANGED <<qz, outputs>>
    /\ UNCHANGED <<nb, symlinks, cfgStep, files, env>>
    /\ UNCHANGED <<exportVars, sortVars, resizeVars>>

\* df = pd.DataFrame(...); df
PrintResults ==
    /\ AtCell("print")
    /\ events' = Append(events, Ev("print", "", "", 0))
    /\ CellDone
    /\ UNCHANGED <<nb, symlinks, cfgStep>>
    /\ UNCHANGED <<quantVars, exportVars, sortVars, resizeVars>>

\* a results dict whose tflite entries are crossed
ResultsDictCrossed(q) ==
    [k \in {"top_1_accuracy_keras", "top_1_accuracy_keras_quantized",
            "top_1_accuracy_tflite", "top_1_accuracy_tflite_quantized"} |->
        IF k = "top_1_accuracy_keras" THEN q.top_1_accuracy_keras
        ELSE IF k = "top_1_accuracy_keras_quantized"
        THEN q.top_1_accuracy_keras_quantized
        ELSE IF k = "top_1_accuracy_tflite" THEN q.top_1_accuracy_tflite_quantized
        ELSE q.top_1_accuracy_tflite]

\* results = dict(); results["top_1_accuracy_keras"] = top_1_accuracy_keras; ...
ResultsDict(q) ==
    [k \in {"top_1_accuracy_keras", "top_1_accuracy_keras_quantized",
            "top_1_accuracy_tflite", "top_1_accuracy_tflite_quantized"} |->
        IF k = "top_1_accuracy_keras" THEN q.top_1_accuracy_keras
        ELSE IF k = "top_1_accuracy_keras_quantized"
        THEN q.top_1_accuracy_keras_quantized
        ELSE IF k = "top_1_accuracy_tflite" THEN q.top_1_accuracy_tflite
        ELSE q.top_1_accuracy_tflite_quantized]

\* evaluate_output_dir.mkdir(...); with open(.../"results.json", "w") as f:
\* ... json.dump(results, f, ...)
SaveResults ==
    /\ AtCell("save")
    /\ events' = Append(events, Ev("write", "evaluate_result_dir", "results.json", 0))
    /\ files' = [files EXCEPT !.results = ResultsDict(qz)]
    /\ CellDone
    /\ UNCHANGED <<nb, symlinks, cfgStep, qz, env, outputs>>
    /\ UNCHANGED <<exportVars, sortVars, resizeVars>>

NextQuantize ==
    \/ ValidateSymlinkStep
    \/ OpenJsonStep
    \/ JsonSchemaValidate
    \/ ReadConfigValue
    \/ LoadKerasModel
    \/ CreateImageLoader
    \/ QuantizeKerasModel
    \/ ConvertQuantizedModel
    \/ ConvertModel
    \/ LoadLabels
    \/ EnumerateImages
    \/ LoadInterpreter
    \/ LoadInterpreterQuantized
    \/ EvaluateTflite
    \/ EvaluateTfliteQuantized
    \/ EvaluateKeras
    \/ EvaluateKerasQuantized
    \/ PrintResults
    \/ SaveResults

SpecQuantize == InitQuantize /\ [][NextQuantize]_vars

-----------------------------------------------------------------------------
(* Both notebooks.                                                         *)

Init == InitExport \/ InitQuantize

Next ==
    \/ ValidateSymlinkStep
    \/ OpenJsonStep
    \/ JsonSchemaValidate
    \/ ReadConfigValue
    \/ SetAuthentication
    \/ ListProjects
    \/ RetrieveDataset
    \/ Sleep
    \/ PrepareExportDir
    \/ MoveDataset
    \/ LoadKerasModel
    \/ CreateImageLoader
    \/ QuantizeKerasModel
    \/ ConvertQuantizedModel
    \/ ConvertModel
    \/ LoadLabels
    \/ EnumerateImages
    \/ LoadInterpreter
    \/ LoadInterpreterQuantized
    \/ EvaluateTflite
    \/ EvaluateTfliteQuantized
    \/ EvaluateKeras
    \/ EvaluateKerasQuantized
    \/ PrintResults
    \/ SaveResults

Spec == Init /\ [][Next]_vars

-----------------------------------------------------------------------------
(* C5: the natural-sort order, stated from the text of the paths.          *)

\* the positions at which a maximal digit run of t starts / ends
DigitRunStarts(t) ==
    {i \in 1..Len(t) : IsDigit(t[i]) /\ (i = 1 \/ ~IsDigit(t[i - 1]))}
DigitRunEnds(t) ==
    {i \in 1..Len(t) : IsDigit(t[i]) /\ (i = Len(t) \/ ~IsDigit(t[i + 1]))}

\* the k-th smallest element of a set of numbers
Nth(S, k) == CHOOSE x \in S : Cardinality({y \in S : y <= x}) = k

\* t as alternating runs: run 1, 3, 5, ... hold no digit (and may be empty),
\* run 2, 4, ... are the maximal digit runs
AltRuns(t) ==
    LET d == Cardinality(DigitRunStarts(t))
        from(k) == IF k = 0 THEN 1 ELSE Nth(DigitRunEnds(t), k) + 1
        upto(k) == IF k = d THEN Len(t) ELSE Nth(DigitRunStarts(t), k + 1) - 1
    IN  [r \in 1..(2 * d + 1) |->
            IF r % 2 = 1
            THEN SubSeq(t, from((r - 1) \div 2), upto((r - 1) \div 2))
            ELSE SubSeq(t, Nth(DigitRunStarts(t), r \div 2),
                           Nth(DigitRunEnds(t), r \div 2))]

RECURSIVE Pow10(_)
Pow10(k) == IF k = 0 THEN 1 ELSE 10 * Pow10(k - 1)

\* the number a digit run writes: the sum of digit * 10^place
RECURSIVE DecimalValue(_)
DecimalValue(run) ==
    IF Len(run) = 0 THEN 0
    ELSE (run[1] - 48) * Pow10(Len(run) - 1) + DecimalValue(Tail(run))

\* run r of a and of b are the same: digit runs by value, others as strings
RunSame(a, b, r) ==
    IF r % 2 = 0 THEN DecimalValue(a[r]) = DecimalValue(b[r]) ELSE a[r] = b[r]

RunBefore(a, b, r) ==
    IF r % 2 = 0 THEN DecimalValue(a[r]) < DecimalValue(b[r])
    ELSE StrLess(a[r], b[r])

\* a sorts strictly before b in natural order
NaturalBefore(a, b) ==
    LET ra == AltRuns(a)
        rb == AltRuns(b)
        m == Min(Len(ra), Len(rb))
    IN  \/ \E r \in 1..m : /\ \A q \in 1..(r - 1) : RunSame(ra, rb, q)
                           /\ RunBefore(ra, rb, r)
        \/ /\ Len(ra) < Len(rb)
           /\ \A q \in 1..m : RunSame(ra, rb, q)

IsPermutationOf(s, t) ==
    /\ Len(s) = Len(t)
    /\ \A x \in Range(s) \cup Range(t) : Count(s, x) = Count(t, x)

\* C5: sorted(paths, key=natural_keys) never raises, returns a permutation of
\* the globbed paths, and no path of the result sorts, in natural order (digit
\* runs by integer value, the other runs as strings), strictly before a path
\* that precedes it; paths that tie keep their glob order.
C5_NaturalSortOrder ==
    (nb = "sort" /\ pc # "glob") =>
        /\ pc = "sorted" /\ err = "none"
        /\ IsPermutationOf(files_all, paths)
        /\ \A i, j \in 1..Len(files_all) :
              i < j => ~NaturalBefore(files_all[j], files_all[i])
        /\ \A i, j \in 1..Len(paths) :
              (i < j /\ ~NaturalBefore(paths[i], paths[j])
                     /\ ~NaturalBefore(paths[j], paths[i]))
                 => \E k, l \in 1..Len(files_all) :
                       k < l /\ files_all[k] = paths[i] /\ files_all[l] = paths[j]

\* "a10" was globbed before "a2" and the sort put "a2" first
C5_Witness ==
    /\ nb = "sort" /\ pc = "sorted"
    /\ paths = <<<<97, 49, 48>>, <<97, 50>>>>
    /\ files_all = <<<<97, 50>>, <<97, 49, 48>>>>


-----------------------------------------------------------------------------
(* C10: resize crops a SIZE x SIZE window out of the resized image.        *)

\* C10: when RESIZE_SCALE >= 1 (input_tensor_size <= 256) the shorter side of
\* the resized image is RESIZE_SCALE * SIZE = 256 and the longer one is scaled
\* by the same factor (rounded), both crop offsets are non-negative, the crop
\* window lies inside the resized image, and the crop is SIZE x SIZE.
C10_ResizeCropInside ==
    (nb = "resize" /\ pc = "resized" /\ input_tensor_size <= ResizeBase) =>
        LET h == shape[1]
            w == shape[2]
            SIZE == input_tensor_size
            r == resized
        IN  /\ (h <= w => r.height_tag = ResizeBase)
            /\ (w <= h => r.width_tag = ResizeBase)
            /\ (h <= w => 2 * (r.width_tag * h - ResizeBase * w) \in (-h)..h)
            /\ (w <= h => 2 * (r.height_tag * w - ResizeBase * h) \in (-w)..w)
            /\ r.offset_height >= 0 /\ r.offset_width >= 0
            /\ r.offset_height + SIZE <= r.height_tag
            /\ r.offset_width + SIZE <= r.width_tag
            /\ r.cropped_shape = <<SIZE, SIZE>>

\* a tall image resized for a 224 x 224 input: the crop starts inside
C10_Witness ==
    /\ nb = "resize" /\ pc = "resized"
    /\ input_tensor_size = 224 /\ shape = <<5, 3>>
    /\ resized.width_tag = ResizeBase /\ resized.height_tag > ResizeBase
    /\ resized.offset_height > resized.offset_width
    /\ resized.offset_width > 0


-----------------------------------------------------------------------------
(* C1, C2, C6: the polling loop and the move of the export notebook.       *)

IsRetrieve(e) == e.op = "request" /\ e.what = "retrieve_dataset"

\* a retrieve_dataset call that returned a response (n is its status)
IsResponse(e) == IsRetrieve(e) /\ e.n # 0

OkStatus(n) == n = 200 \/ n = 201

\* the position of the last response among the first k operations (0: none)
LastResponse(k) ==
    LET r == {i \in 1..k : IsResponse(events[i])} IN
    IF r = {} THEN 0 ELSE CHOOSE i \in r : \A j \in r : j <= i

\* C1: the loop calls retrieve_dataset again after every response whose status
\* is neither 200 nor 201, and export_dir is prepared and the file moved only
\* after a response with status 200 or 201: no makedirs or move happens while
\* the last observed status is anything else.
C1_MoveOnlyAfterSuccess ==
    nb = "export" =>
        /\ \A i \in 1..Len(events) :
              events[i].op \in {"move", "makedirs"} =>
                  /\ LastResponse(i) # 0
                  /\ OkStatus(events[LastResponse(i)].n)
        /\ pc \in {"move", "done"} => OkStatus(ex.status)
        /\ (pc = "loop" /\ ~OkStatus(ex.status)) =>
              /\ ENABLED RetrieveDataset
              /\ ~ENABLED PrepareExportDir
        /\ (pc = "loop" /\ OkStatus(ex.status)) => ~ENABLED RetrieveDataset

\* two polls answered 202, the third 200, and the file was moved
C1_Witness ==
    /\ nb = "export" /\ pc = "done"
    /\ \E i, j, k \in 1..Len(events) :
          /\ i < j /\ j < k
          /\ IsResponse(events[i]) /\ events[i].n = 202
          /\ IsResponse(events[j]) /\ events[j].n = 200
          /\ events[k].op = "move"

\* C2: every retrieve_dataset call that returns is followed by exactly one
\* time.sleep(1) before the next call and before the loop ends (also after the
\* 200/201 response), every sleep follows a call, and every sleep lasts 1
\* second whatever the number of attempts.
C2_FixedCadence ==
    nb = "export" =>
        /\ \A i \in 1..Len(events) :
              IsResponse(events[i]) =>
                  IF i = Len(events) THEN pc = "sleep"
                  ELSE events[i + 1].op = "sleep"
        /\ \A i \in 1..Len(events) :
              events[i].op = "sleep" =>
                  /\ events[i].n = 1
                  /\ i > 1 /\ IsResponse(events[i - 1])
        /\ \A i, j \in 1..Len(events) :
              (i < j /\ IsRetrieve(events[i]) /\ IsRetrieve(events[j])) =>
                  \E k \in (i + 1)..(j - 1) : events[k].op = "sleep"
        /\ pc \in {"move", "done"} =>
              Cardinality({i \in 1..Len(events) : events[i].op = "sleep"}) = Polls

\* three polls, each followed by its sleep, the last one after the 201
C2_Witness ==
    /\ nb = "export" /\ pc = "move"
    /\ Polls = 3
    /\ Cardinality({i \in 1..Len(events) : events[i].op = "sleep"}) = 3
    /\ ex.status = 201
    /\ events[Len(events)].op = "sleep"

\* the dataset file of the same name inside export_dir
InsideExportDir == Append(Components(ex.export_dir), ex.filename)

\* C6 (as claimed): when the move is reached and a dataset file of the same
\* name is already in export_dir, FileExistsError is raised and the file
\* system is left as it is, whether or not export_dir ends with "/".
C6_FileExistsError ==
    [][(nb = "export" /\ pc = "move" /\ InsideExportDir \in DOMAIN fs)
          => (err' = "FileExistsError" /\ fs' = fs)]_vars

\* the same for an export_dir that ends with "/"
C6_WithTrailingSlash ==
    [][(nb = "export" /\ pc = "move" /\ InsideExportDir \in DOMAIN fs
            /\ ex.export_dir[Len(ex.export_dir)] = "/")
          => (err' = "FileExistsError" /\ fs' = fs)]_vars


-----------------------------------------------------------------------------
(* C3: the symlink guard of both notebooks.                                *)

\* the paths the guard is applied to
GuardedPaths ==
    IF nb = "export"
    THEN {"configuration.json", "configuration_schema_export.json", "export_dir"}
    ELSE {"configuration.json", "configuration_schema.json",
          "source_keras_model", "dataset_image_dir", "output_dir",
          "evaluate_image_dir", "evaluate_label_file", "evaluate_result_dir"}

\* the operations of the "Load Configurations" cell
ConfigOps == {"validate_symlink", "open", "jsonschema", "read"}

Validated(path, k) ==
    \E j \in 1..(k - 1) : events[j] = Ev("validate_symlink", path, "none", 0)

\* C3: validate_symlink raises OSError(ELOOP) exactly for a path that is a
\* symbolic link, and the run ends there; every guarded path is validated
\* before it is opened or used and before the configuration cell ends; and
\* when a guarded path is a symlink the run never leaves the configuration
\* cell: no request is sent, no model is loaded, nothing is written or moved.
C3_SymlinkGuard ==
    nb \in {"export", "quantize"} =>
        /\ \A i \in 1..Len(events) :
              events[i].op = "validate_symlink" =>
                  /\ events[i].what =
                        (IF events[i].arg \in symlinks THEN "OSError(ELOOP)"
                         ELSE "none")
                  /\ events[i].arg \in symlinks =>
                        /\ i = Len(events)
                        /\ pc = "failed" /\ err = "OSError(ELOOP)"
        /\ \A i \in 1..Len(events) :
              (events[i].arg # "" /\ events[i].op # "validate_symlink") =>
                  /\ events[i].arg \in GuardedPaths
                  /\ Validated(events[i].arg, i)
        /\ pc \notin {"config", "failed"} =>
              \A path \in GuardedPaths : Validated(path, Len(events) + 1)
        /\ GuardedPaths \cap symlinks # {} =>
              /\ pc \in {"config", "failed"}
              /\ \A i \in 1..Len(events) : events[i].op \in ConfigOps
              /\ nb = "export" => \A q \in DOMAIN fs : fs[q] # "download"
              /\ nb = "quantize" =>
                    /\ qz.keras_model = ""
                    /\ DOMAIN files.results = {}
                    /\ \A f \in DOMAIN files.tflite : files.tflite[f] = "stale"

\* the last path of the quantize configuration is a symlink: every earlier
\* statement of the cell ran, and the cell ended with ELOOP
C3_Witness ==
    /\ nb = "quantize" /\ pc = "failed" /\ err = "OSError(ELOOP)"
    /\ symlinks = {"evaluate_result_dir"}
    /\ Len(events) = Len(QuantizeConfigCell)
    /\ events[Len(events)] =
          Ev("validate_symlink", "evaluate_result_dir", "OSError(ELOOP)", 0)

-----------------------------------------------------------------------------
(* C4, C7, C8, C9: the order and the results of the quantize notebook.     *)

Before(i, e) == \E j \in 1..(i - 1) : events[j] = e

\* C4: the configuration is validated against the schema before any value of
\* it is read, the quantization precedes the write of model_quantized.tflite,
\* both .tflite files are written before an interpreter loads one, results.json
\* is written only after the four evaluations have completed, and after a
\* failure no further step runs, so no later file is written.
C4_StepOrder ==
    nb = "quantize" =>
        /\ \A i \in 1..Len(events) :
              events[i].op = "read" => Before(i, Ev("jsonschema", "", "valid", 0))
        /\ \A i \in 1..Len(events) :
              events[i] = Ev("write", "output_dir", "model_quantized.tflite", 0) =>
                  \E j \in 1..(i - 1) :
                      events[j].op = "quantize" /\ events[j].what # "raised"
        /\ \A i \in 1..Len(events) :
              events[i].op = "load_interpreter" =>
                  /\ Before(i, Ev("write", "output_dir", "model_quantized.tflite", 0))
                  /\ Before(i, Ev("write", "output_dir", "model.tflite", 0))
        /\ \A i \in 1..Len(events) :
              events[i] = Ev("write", "evaluate_result_dir", "results.json", 0) =>
                  \A v \in {"tflite", "tflite_quantized", "keras", "keras_quantized"} :
                      Before(i, Ev("evaluate", "", v, 0))
        /\ DOMAIN files.results # {} =>
              /\ pc = "done"
              /\ \E i \in 1..Len(events) :
                    events[i] = Ev("write", "evaluate_result_dir", "results.json", 0)
        /\ err # "none" =>
              /\ pc = "failed"
              /\ ~ENABLED NextQuantize
              /\ DOMAIN files.results = {}

\* the whole notebook ran and results.json is written
C4_Witness ==
    /\ nb = "quantize" /\ pc = "done" /\ err = "none"
    /\ DOMAIN files.results # {}
    /\ events[Len(events)] = Ev("write", "evaluate_result_dir", "results.json", 0)

Written(name) ==
    \E i \in 1..Len(events) : events[i] = Ev("write", "output_dir", name, 0)

\* C7: once written, model_quantized.tflite holds the conversion of the
\* MCT-quantized Keras model and model.tflite the conversion of the original
\* one; interpreter is loaded from model.tflite and interpreter_quantized from
\* model_quantized.tflite, each holding that conversion.
C7_TfliteFilesNotSwapped ==
    nb = "quantize" =>
        /\ Written("model_quantized.tflite") =>
              /\ "model_quantized.tflite" \in DOMAIN files.tflite
              /\ files.tflite["model_quantized.tflite"] = "tflite:mct:keras"
        /\ Written("model.tflite") =>
              /\ "model.tflite" \in DOMAIN files.tflite
              /\ files.tflite["model.tflite"] = "tflite:keras"
              /\ Written("model_quantized.tflite")
        /\ qz.interpreter.model_path # "" =>
              qz.interpreter = [model_path |-> "model.tflite",
                                model |-> "tflite:keras"]
        /\ qz.interpreter_quantized.model_path # "" =>
              qz.interpreter_quantized = [model_path |-> "model_quantized.tflite",
                                          model |-> "tflite:mct:keras"]
        /\ pc \in {"eval_tflite", "eval_tflite_q", "eval_keras", "eval_keras_q",
                   "print", "save", "done"} =>
              /\ qz.interpreter.model_path # ""
              /\ qz.interpreter_quantized.model_path # ""

\* both interpreters are loaded, over files that were there before the run
C7_Witness ==
    /\ nb = "quantize" /\ pc = "eval_tflite"
    /\ qz.interpreter.model = "tflite:keras"
    /\ qz.interpreter_quantized.model = "tflite:mct:keras"
    /\ DOMAIN files.tflite = {"model.tflite", "model_quantized.tflite"}

\* the evaluations of the given kind of the given model
EvaluationsOf(kind, model) ==
    {i \in 1..Len(outputs) : outputs[i].kind = kind /\ outputs[i].model = model}

\* results.json holds under key k what the one evaluation of that model returned
Holds(k, kind, model) ==
    /\ Cardinality(EvaluationsOf(kind, model)) = 1
    /\ \A i \in EvaluationsOf(kind, model) : files.results[k] = outputs[i].accuracy

\* C8: results.json, once written, has exactly the four keys, each holding the
\* accuracy returned by the evaluation of the model variant its name says.
C8_ResultsNotCrossed ==
    (nb = "quantize" /\ DOMAIN files.results # {}) =>
        /\ DOMAIN files.results =
              {"top_1_accuracy_keras", "top_1_accuracy_keras_quantized",
               "top_1_accuracy_tflite", "top_1_accuracy_tflite_quantized"}
        /\ Holds("top_1_accuracy_keras", "keras", "keras")
        /\ Holds("top_1_accuracy_keras_quantized", "keras", "mct:keras")
        /\ Holds("top_1_accuracy_tflite", "tflite", "tflite:keras")
        /\ Holds("top_1_accuracy_tflite_quantized", "tflite", "tflite:mct:keras")

\* results.json is written and the tflite accuracies differ from each other
\* and from the keras ones
C8_Witness ==
    /\ nb = "quantize" /\ pc = "done"
    /\ DOMAIN files.results # {}
    /\ files.results["top_1_accuracy_tflite"] = <<2, 2>>
    /\ files.results["top_1_accuracy_tflite_quantized"] = <<1, 2>>
    /\ files.results["top_1_accuracy_keras"] = <<0, 2>>
    /\ files.results["top_1_accuracy_keras_quantized"] = <<1, 2>>

\* the images of the data set the model answered with their own label
CorrectImages(answer) ==
    {img \in env.images : answer[ImagePath(img)] = qz.labels[img[1]]}

\* C9: every accuracy evaluate_tflite_model returned is the number of images
\* whose arg-max answer is the label id of the image's own folder, over the
\* number of images, hence between 0 and 1; test_images holds every image of
\* the data set once and ground_truth_ids[i] is the label of test_images[i].
C9_TfliteAccuracy ==
    nb = "quantize" =>
        /\ \A i \in 1..Len(outputs) :
              outputs[i].kind = "tflite" =>
                  /\ outputs[i].accuracy =
                        <<Cardinality(CorrectImages(outputs[i].answer)),
                          Cardinality(env.images)>>
                  /\ outputs[i].accuracy[2] > 0
                  /\ outputs[i].accuracy[1] \in 0..outputs[i].accuracy[2]
        /\ Len(outputs) >= 1 => qz.top_1_accuracy_tflite = outputs[1].accuracy
        /\ Len(outputs) >= 2 =>
              qz.top_1_accuracy_tflite_quantized = outputs[2].accuracy
        /\ Len(qz.ground_truth_ids) = Len(qz.test_images)
        /\ Len(qz.test_images) > 0 =>
              /\ Len(qz.test_images) = Cardinality(env.images)
              /\ {qz.test_images[i].path : i \in 1..Len(qz.test_images)}
                    = {ImagePath(img) : img \in env.images}
        /\ \A i \in 1..Len(qz.test_images) :
              qz.ground_truth_ids[i] = qz.labels[LabelOfPath(qz.test_images[i].path)]

\* two images of different labels, one of them answered correctly
C9_Witness ==
    /\ nb = "quantize" /\ pc = "eval_tflite_q"
    /\ env.images = {<<<<50>>, <<50>>>>, <<<<49, 48>>, <<49, 48>>>>}
    /\ qz.ground_truth_ids = <<1, 0>>
    /\ qz.top_1_accuracy_tflite = <<1, 2>>
    /\ outputs[1].answer[<<50, 47, 50>>] = 1
    /\ outputs[1].answer[<<49, 48, 47, 49, 48>>] = 1

=============================================================================
